---- MODULE Spec2Model ----
(***************************************************************************)
(* Stack Exchange XML post extractor: parser.py (year filter, echo output) *)
(* and parser2.py (PostFilter, StreamingPostExtractor, TopicsFormatter).   *)
(*                                                                         *)
(* A Python str is a sequence of one-character strings; the character      *)
(* "U+0662" stands for ARABIC-INDIC DIGIT TWO, a decimal digit outside     *)
(* ASCII.  A value that may be None is <<>> for None and <<v>> otherwise.  *)
(* A row's attribute mapping (elem.attrib) is a function from the          *)
(* attribute names it carries to their values.                             *)
(***************************************************************************)
EXTENDS Integers, Sequences, FiniteSets

VARIABLES
    \* extract_year_from_date / PostFilter._extract_year_from_date
    date_string, year1, year2,
    \* one filter decision: command line, PostFilter, one row
    args, flt, rec, verdict, verdict1, fpc,
    \* one run of an extractor over a stream of rows
    program, stream, post_filter, target_count,
    posts, extracted_count, total_processed, pos, pc, calls,
    \* TopicsFormatter
    topic_counter, topics, fcalls,
    \* one run of main: its progress, the input's first unparsable position,
    \* the attribute dicts in memory and the ones posts refers to, the output
    \* file and what the run reported
    mpc, bad_at, heap, post_refs, output_file, rows_out, report

yearVars == <<date_string, year1, year2>>
filterVars == <<args, flt, rec, verdict, verdict1, fpc>>
runVars == <<program, stream, post_filter, target_count,
             posts, extracted_count, total_processed, pos, pc, calls>>
fmtVars == <<topic_counter, topics, fcalls>>
mainVars == <<mpc, bad_at, heap, post_refs, output_file, rows_out, report>>
vars == <<yearVars, filterVars, runVars, fmtVars, mainVars>>

----------------------------------------------------------------------------
\* Bounds of the model.

MaxDateLen == 5
MaxStream == 3
MaxTarget == 2
MaxCalls == 2
MaxFormatCalls == 2

----------------------------------------------------------------------------
\* Python values.

None == <<>>

Some(v) == <<v>>

\* dict.get(key, default)
Get(d, key, default) == IF key \in DOMAIN d THEN d[key] ELSE default

ASCIIDigits == {"0", "1", "2", "3", "4", "5", "6", "7", "8", "9"}

\* The decimal digits (Unicode category Nd) a str pattern's \d matches and
\* int() converts.
DecimalDigits == ASCIIDigits \cup {"U+0662"}

DigitValue(c) ==
    CASE c = "0" -> 0 [] c = "1" -> 1 [] c = "2" -> 2 [] c = "3" -> 3
      [] c = "4" -> 4 [] c = "5" -> 5 [] c = "6" -> 6 [] c = "7" -> 7
      [] c = "8" -> 8 [] c = "9" -> 9 [] c = "U+0662" -> 2

RECURSIVE Strip(_)
\* str.strip()
Strip(s) ==
    IF s = <<>> THEN s
    ELSE IF Head(s) = " " THEN Strip(Tail(s))
    ELSE IF s[Len(s)] = " " THEN Strip(SubSeq(s, 1, Len(s) - 1))
    ELSE s

RECURSIVE DigitsValue(_)
DigitsValue(s) ==
    IF s = <<>> THEN 0
    ELSE IF s[Len(s)] = "_" THEN DigitsValue(SubSeq(s, 1, Len(s) - 1))
    ELSE 10 * DigitsValue(SubSeq(s, 1, Len(s) - 1)) + DigitValue(s[Len(s)])

\* int(s) of a str: surrounding whitespace, one optional sign, decimal digits
\* with single underscores between them; anything else raises ValueError
\* (ok = FALSE).
PyInt(s) ==
    LET t == Strip(s)
        signed == t # <<>> /\ Head(t) \in {"+", "-"}
        body == IF signed THEN Tail(t) ELSE t
        wellFormed ==
            /\ body # <<>>
            /\ \A i \in 1..Len(body) : body[i] \in DecimalDigits \cup {"_"}
            /\ body[1] # "_" /\ body[Len(body)] # "_"
            /\ \A i \in 1..(Len(body) - 1) : ~(body[i] = "_" /\ body[i + 1] = "_")
    IN  IF wellFormed
        THEN [ok |-> TRUE,
              val |-> IF signed /\ Head(t) = "-"
                      THEN 0 - DigitsValue(body) ELSE DigitsValue(body)]
        ELSE [ok |-> FALSE, val |-> 0]

RECURSIVE Split(_, _)
\* str.split(sep) for a one-character separator
Split(s, sep) ==
    IF \E i \in 1..Len(s) : s[i] = sep
    THEN LET i == CHOOSE k \in 1..Len(s) :
                      s[k] = sep /\ \A j \in 1..(k - 1) : s[j] # sep
         IN  <<SubSeq(s, 1, i - 1)>> \o Split(SubSeq(s, i + 1, Len(s)), sep)
    ELSE <<s>>

\* truth value of an int-or-None: None and 0 are false
TruthyInt(x) == x # None /\ x[1] # 0

\* truth value of a str-or-None: None and "" are false
TruthyStr(x) == x # None /\ x[1] # <<>>

----------------------------------------------------------------------------
\* Year extraction.

\* re.match(r'^(\d{4})', date_string): group 1, or None
ReMatchYear(s) ==
    IF Len(s) >= 4 /\ \A i \in 1..4 : s[i] \in DecimalDigits
    THEN Some(SubSeq(s, 1, 4)) ELSE None

\* parser.py
extract_year_from_date(s) ==
    LET year_match == ReMatchYear(s)
    IN  IF year_match # None /\ PyInt(year_match[1]).ok
        THEN PyInt(year_match[1]).val
        ELSE 0

\* parser2.py, PostFilter._extract_year_from_date
PostFilter_extract_year_from_date(s) ==
    LET year_match == ReMatchYear(s)
    IN  IF year_match # None /\ PyInt(year_match[1]).ok
        THEN PyInt(year_match[1]).val
        ELSE 0

----------------------------------------------------------------------------
\* PostFilter (parser2.py).

S0 == <<"0">>
S1 == <<"1">>
S2 == <<"2">>
EmptyStr == <<>>

RECURSIVE FindAllTags(_, _)
\* re.findall(r'<([^>]+)>', s) from index i on, as the set of its matches: a
\* '<', then the longest run of characters other than '>' (at least one),
\* then a '>'; matches do not overlap.
FindAllTags(s, i) ==
    IF i > Len(s) THEN {}
    ELSE IF s[i] = "<" /\ \E k \in (i + 2)..Len(s) :
                              s[k] = ">" /\ \A j \in (i + 1)..(k - 1) : s[j] # ">"
    THEN LET k == CHOOSE k \in (i + 2)..Len(s) :
                      s[k] = ">" /\ \A j \in (i + 1)..(k - 1) : s[j] # ">"
         IN  {SubSeq(s, i + 1, k - 1)} \cup FindAllTags(s, k + 1)
    ELSE FindAllTags(s, i + 1)

\* PostFilter._extract_tags
extract_tags(tags_text) ==
    IF tags_text = EmptyStr THEN {} ELSE FindAllTags(tags_text, 1)

SeqToSet(s) == {s[i] : i \in 1..Len(s)}

\* PostFilter.__init__(**kw): list arguments arrive as None or a sequence
PostFilter(kw) ==
    [min_score |-> kw.min_score,
     max_score |-> kw.max_score,
     post_types |-> IF kw.post_types # None /\ kw.post_types[1] # <<>>
                    THEN SeqToSet(kw.post_types[1]) ELSE {S1, S2},
     tags_include |-> IF kw.tags_include # None /\ kw.tags_include[1] # <<>>
                      THEN SeqToSet(kw.tags_include[1]) ELSE {},
     tags_exclude |-> IF kw.tags_exclude # None /\ kw.tags_exclude[1] # <<>>
                      THEN SeqToSet(kw.tags_exclude[1]) ELSE {},
     min_answers |-> kw.min_answers,
     has_accepted_answer |-> kw.has_accepted_answer,
     min_views |-> kw.min_views,
     min_year |-> kw.min_year,
     max_year |-> kw.max_year,
     specific_years |-> IF kw.specific_years # None /\ kw.specific_years[1] # <<>>
                        THEN SeqToSet(kw.specific_years[1]) ELSE {}]

\* YearStage with the bounds looked at only when no year set is configured
YearStage_SetOnly(self, post_attrs) ==
    LET creation_date == Get(post_attrs, "CreationDate", EmptyStr)
        post_year == PostFilter_extract_year_from_date(creation_date)
    IN  IF creation_date = EmptyStr THEN TRUE
        ELSE IF self.specific_years # {} THEN post_year \in self.specific_years
        ELSE /\ (self.min_year = None \/ post_year >= self.min_year[1])
             /\ (self.max_year = None \/ post_year <= self.max_year[1])

\* The year stage of should_include_post (parser2.py lines 84-98): TRUE when
\* the row is not rejected by it.
YearStage(self, post_attrs) ==
    IF self.min_year # None \/ self.max_year # None \/ self.specific_years # {}
    THEN LET creation_date == Get(post_attrs, "CreationDate", EmptyStr)
         IN  IF creation_date # EmptyStr
             THEN LET post_year == PostFilter_extract_year_from_date(creation_date)
                  IN  IF self.specific_years # {} /\ post_year \notin self.specific_years
                      THEN FALSE
                      ELSE IF self.min_year # None /\ post_year < self.min_year[1]
                      THEN FALSE
                      ELSE IF self.max_year # None /\ post_year > self.max_year[1]
                      THEN FALSE
                      ELSE TRUE
             ELSE TRUE
    ELSE TRUE

\* TagStage with every include-tag required instead of any one of them
TagStage_AllRequired(self, post_type, post_attrs) ==
    IF post_type = S1 /\ (self.tags_include # {} \/ self.tags_exclude # {})
    THEN LET post_tags == extract_tags(Get(post_attrs, "Tags", EmptyStr))
         IN  /\ self.tags_include \subseteq post_tags
             /\ self.tags_exclude \cap post_tags = {}
    ELSE TRUE

\* The tag stage of should_include_post (lines 71-82)
TagStage(self, post_type, post_attrs) ==
    IF post_type = S1 /\ (self.tags_include # {} \/ self.tags_exclude # {})
    THEN LET tags_text == Get(post_attrs, "Tags", EmptyStr)
             post_tags == extract_tags(tags_text)
         IN  IF self.tags_include # {} /\ self.tags_include \cap post_tags = {}
             THEN FALSE
             ELSE IF self.tags_exclude # {} /\ self.tags_exclude \cap post_tags # {}
             THEN FALSE
             ELSE TRUE
    ELSE TRUE

\* AcceptedStage applied to rows of every post type
AcceptedStage_AnyType(self, post_type, post_attrs) ==
    IF self.has_accepted_answer # None
    THEN self.has_accepted_answer[1] <=> "AcceptedAnswerId" \in DOMAIN post_attrs
    ELSE TRUE

\* The accepted-answer stage of should_include_post (lines 63-69)
AcceptedStage(self, post_type, post_attrs) ==
    IF post_type = S1 /\ self.has_accepted_answer # None
    THEN LET has_accepted == "AcceptedAnswerId" \in DOMAIN post_attrs
         IN  IF self.has_accepted_answer[1] /\ ~has_accepted THEN FALSE
             ELSE IF ~self.has_accepted_answer[1] /\ has_accepted THEN FALSE
             ELSE TRUE
    ELSE TRUE

\* PostFilter.should_include_post: "True", "False", or "ValueError" when an
\* int() of the row's attributes raises.
should_include_post(self, post_attrs) ==
    LET post_type == Get(post_attrs, "PostTypeId", S1)
        score == PyInt(Get(post_attrs, "Score", S0))
        views == PyInt(Get(post_attrs, "ViewCount", S0))
        answer_count == PyInt(Get(post_attrs, "AnswerCount", S0))
    IN  IF post_type \notin self.post_types THEN "False"
        ELSE IF ~score.ok THEN "ValueError"
        ELSE IF self.min_score # None /\ score.val < self.min_score[1] THEN "False"
        ELSE IF self.max_score # None /\ score.val > self.max_score[1] THEN "False"
        ELSE IF post_type = S1 /\ self.min_views # None /\ ~views.ok
        THEN "ValueError"
        ELSE IF post_type = S1 /\ self.min_views # None /\ views.val < self.min_views[1]
        THEN "False"
        ELSE IF post_type = S1 /\ self.min_answers # None /\ ~answer_count.ok
        THEN "ValueError"
        ELSE IF post_type = S1 /\ self.min_answers # None
                /\ answer_count.val < self.min_answers[1]
        THEN "False"
        ELSE IF ~AcceptedStage(self, post_type, post_attrs) THEN "False"
        ELSE IF ~TagStage(self, post_type, post_attrs) THEN "False"
        ELSE IF ~YearStage(self, post_attrs) THEN "False"
        ELSE "True"

\* parser.py, should_include_post_by_year; specific_years is None or a set
should_include_post_by_year(post_attrs, min_year, max_year, specific_years) ==
    IF min_year = None /\ max_year = None
       /\ (specific_years = None \/ specific_years[1] = {})
    THEN TRUE
    ELSE LET creation_date == Get(post_attrs, "CreationDate", EmptyStr)
         IN  IF creation_date = EmptyStr THEN TRUE
             ELSE LET post_year == extract_year_from_date(creation_date)
                  IN  IF specific_years # None /\ specific_years[1] # {}
                         /\ post_year \notin specific_years[1]
                      THEN FALSE
                      ELSE IF min_year # None /\ post_year < min_year[1] THEN FALSE
                      ELSE IF max_year # None /\ post_year > max_year[1] THEN FALSE
                      ELSE TRUE

----------------------------------------------------------------------------
\* Command line (parser2.py): validate_arguments and create_post_filter.

CurrentYear == 2025
FirstYear == 2008

\* validate_arguments of parser2.py: "ok", or the exception it raises
validate_arguments(a) ==
    IF a.num_posts <= 0 THEN "ValueError"
    ELSE IF ~a.input_exists THEN "FileNotFoundError"
    ELSE IF a.questions_only /\ a.answers_only THEN "ValueError"
    ELSE IF a.has_accepted /\ a.no_accepted THEN "ValueError"
    ELSE IF TruthyInt(a.min_year)
            /\ (a.min_year[1] < FirstYear \/ a.min_year[1] > CurrentYear)
    THEN "ValueError"
    ELSE IF TruthyInt(a.max_year)
            /\ (a.max_year[1] < FirstYear \/ a.max_year[1] > CurrentYear)
    THEN "ValueError"
    ELSE IF TruthyInt(a.min_year) /\ TruthyInt(a.max_year)
            /\ a.min_year[1] > a.max_year[1]
    THEN "ValueError"
    ELSE IF TruthyStr(a.years) /\ (TruthyInt(a.min_year) \/ TruthyInt(a.max_year))
    THEN "ValueError"
    ELSE "ok"

\* [tag.strip() for tag in text.split(',')]
SplitTags(text) ==
    LET parts == Split(text, ",")
    IN  [i \in 1..Len(parts) |-> Strip(parts[i])]

\* [int(year.strip()) for year in text.split(',')]: None when an int() raises
SplitYears(text) ==
    LET parts == Split(text, ",")
    IN  IF \A i \in 1..Len(parts) : PyInt(Strip(parts[i])).ok
        THEN Some([i \in 1..Len(parts) |-> PyInt(Strip(parts[i])).val])
        ELSE None

\* create_post_filter: ok with the PostFilter, or not ok when a bad --years
\* raises ValueError
create_post_filter(a) ==
    LET post_types == IF a.questions_only THEN <<S1>>
                      ELSE IF a.answers_only THEN <<S2>>
                      ELSE <<S1, S2>>
        tags_include == IF TruthyStr(a.include_tags)
                        THEN Some(SplitTags(a.include_tags[1])) ELSE None
        tags_exclude == IF TruthyStr(a.exclude_tags)
                        THEN Some(SplitTags(a.exclude_tags[1])) ELSE None
        has_accepted_answer == IF a.has_accepted THEN Some(TRUE)
                               ELSE IF a.no_accepted THEN Some(FALSE)
                               ELSE None
        specific_years == IF TruthyStr(a.years) THEN SplitYears(a.years[1]) ELSE None
    IN  IF TruthyStr(a.years) /\ specific_years = None
        THEN [ok |-> FALSE, filter |-> None]
        ELSE [ok |-> TRUE, filter |-> Some(
             PostFilter([min_score |-> a.min_score,
                         max_score |-> a.max_score,
                         post_types |-> Some(post_types),
                         tags_include |-> tags_include,
                         tags_exclude |-> tags_exclude,
                         min_answers |-> a.min_answers,
                         has_accepted_answer |-> has_accepted_answer,
                         min_views |-> a.min_views,
                         min_year |-> a.min_year,
                         max_year |-> a.max_year,
                         specific_years |-> specific_years]))]

\* validate_arguments of parser.py: "ok", or "exit" for sys.exit(1)
parser_validate_arguments(a) ==
    IF a.num_posts <= 0 THEN "exit"
    ELSE IF ~a.input_exists THEN "exit"
    ELSE IF TruthyInt(a.min_year)
            /\ (a.min_year[1] < FirstYear \/ a.min_year[1] > CurrentYear)
    THEN "exit"
    ELSE IF TruthyInt(a.max_year)
            /\ (a.max_year[1] < FirstYear \/ a.max_year[1] > CurrentYear)
    THEN "exit"
    ELSE IF TruthyInt(a.min_year) /\ TruthyInt(a.max_year)
            /\ a.min_year[1] > a.max_year[1]
    THEN "exit"
    ELSE IF TruthyStr(a.years) /\ (TruthyInt(a.min_year) \/ TruthyInt(a.max_year))
    THEN "exit"
    ELSE "ok"

\* main of parser.py, lines 243-250: specific_years is None or a set of ints;
\* not ok (sys.exit(1)) for a --years that does not parse
parser_specific_years(a) ==
    IF TruthyStr(a.years)
    THEN IF SplitYears(a.years[1]) = None THEN [ok |-> FALSE, val |-> None]
         ELSE [ok |-> TRUE, val |-> Some(SeqToSet(SplitYears(a.years[1])[1]))]
    ELSE [ok |-> TRUE, val |-> None]

----------------------------------------------------------------------------
\* Inputs: strings, rows and command lines.

Str_a == <<"a">>
Str_b == <<"b">>
Str_c == <<"c">>
Str_algebra == <<"a", "l", "g", "e", "b", "r", "a">>
Str_geometry == <<"g", "e", "o", "m", "e", "t", "r", "y">>
Str_calculus == <<"c", "a", "l", "c", "u", "l", "u", "s">>

\* "<t>"
Tag(t) == <<"<">> \o t \o <<">">>

\* "2016-03-01T00:00:00.000"
Date2016 ==
    <<"2", "0", "1", "6", "-", "0", "3", "-", "0", "1", "T", "0", "0", ":",
      "0", "0", ":", "0", "0", ".", "0", "0", "0">>

AttrNames ==
    {"PostTypeId", "Score", "ViewCount", "AnswerCount", "AcceptedAnswerId",
     "Tags", "CreationDate"}

\* The row whose attributes are the keys of o that are not None
Row(o) == [k \in {n \in AttrNames : o[n] # None} |-> o[k][1]]

NoAttrs == [n \in AttrNames |-> None]

PostTypeValues == {None, Some(S1), Some(S2), Some(<<"3">>)}

NumberValues == {None, Some(<<"7">>), Some(<<"-", "3">>), Some(<<"a", "b", "c">>)}

TagsValues ==
    {None, Some(EmptyStr),
     Some(Tag(Str_algebra) \o Tag(Str_geometry)),
     Some(Tag(Str_geometry)),
     Some(Tag(Str_a) \o Tag(Str_b) \o Tag(Str_c)),
     Some(<<"<", "<">> \o Str_algebra \o <<">", "<", ">">>)}

DateValues ==
    {None, Some(EmptyStr), Some(Date2016),
     Some(<<"2", "0", "2", "0">>),
     Some(<<"2", "0", "1">>),
     Some(<<"U+0662", "0", "2", "0", "-">>),
     Some(<<"a", "b", "c", "d">>)}

TypeScoreRows ==
    {Row([NoAttrs EXCEPT !["PostTypeId"] = t, !["Score"] = sc]) :
        t \in PostTypeValues, sc \in NumberValues}

QuestionRows ==
    {Row([NoAttrs EXCEPT !["PostTypeId"] = t, !["ViewCount"] = v,
                         !["AnswerCount"] = n, !["AcceptedAnswerId"] = acc,
                         !["Tags"] = tg]) :
        t \in PostTypeValues,
        v \in {None, Some(<<"1", "0">>), Some(<<"x">>)},
        n \in {None, Some(<<"x">>)},
        acc \in {None, Some(<<"9">>)},
        tg \in TagsValues}

DateRows ==
    {Row([NoAttrs EXCEPT !["PostTypeId"] = t, !["CreationDate"] = d]) :
        t \in {None, Some(S2)}, d \in DateValues}

RowPool == TypeScoreRows \cup QuestionRows \cup DateRows

NoOptions ==
    [num_posts |-> 1, input_exists |-> TRUE,
     questions_only |-> FALSE, answers_only |-> FALSE,
     min_score |-> None, max_score |-> None,
     min_answers |-> None, min_views |-> None,
     has_accepted |-> FALSE, no_accepted |-> FALSE,
     include_tags |-> None, exclude_tags |-> None,
     min_year |-> None, max_year |-> None, years |-> None]

TypeScoreArgs ==
    {[NoOptions EXCEPT !.questions_only = q, !.answers_only = a,
                       !.min_score = lo, !.max_score = hi] :
        q \in BOOLEAN, a \in BOOLEAN,
        lo \in {None, Some(0)}, hi \in {None, Some(5)}}

QuestionArgs ==
    {[NoOptions EXCEPT !.min_views = v, !.min_answers = n,
                       !.has_accepted = h, !.no_accepted = no,
                       !.include_tags = inc, !.exclude_tags = exc] :
        v \in {None, Some(5)}, n \in {None, Some(1)},
        h \in BOOLEAN, no \in BOOLEAN,
        inc \in {None, Some(Str_calculus \o <<",">> \o Str_algebra)},
        exc \in {None, Some(Str_algebra)}}

YearArgs ==
    {[NoOptions EXCEPT !.min_year = lo, !.max_year = hi, !.years = ys] :
        lo \in {None, Some(0), Some(2015)},
        hi \in {None, Some(0), Some(2018)},
        ys \in {None, Some(<<"2", "0", "2", "0">>),
                Some(<<"2", "0", "1", "6", ",", " ", "2", "0", "2", "0">>),
                Some(<<"2", "0", "x">>)}}

ArgsPool == TypeScoreArgs \cup QuestionArgs \cup YearArgs

\* the options parser.py does not have are left unset
OnlyYearOptions(a) ==
    a = [NoOptions EXCEPT !.min_year = a.min_year, !.max_year = a.max_year,
                          !.years = a.years]

DateAlphabet == {"2", "0", "1", "-", "T", "U+0662"}

RECURSIVE StringsUpTo(_, _)
StringsUpTo(alphabet, n) ==
    IF n = 0 THEN {<<>>}
    ELSE LET shorter == StringsUpTo(alphabet, n - 1)
         IN  shorter \cup {Append(s, c) : s \in shorter, c \in alphabet}

----------------------------------------------------------------------------
\* The specifications leave each other's variables at rest.

YearIdle == date_string = EmptyStr /\ year1 = None /\ year2 = None

FilterIdle ==
    /\ args = NoOptions /\ flt = None /\ rec = Row(NoAttrs)
    /\ verdict = None /\ verdict1 = None /\ fpc = "idle"

RunIdle ==
    /\ program = "none" /\ stream = <<>> /\ post_filter = None
    /\ target_count = 1 /\ posts = <<>> /\ extracted_count = 0
    /\ total_processed = 0 /\ pos = 0 /\ pc = "idle" /\ calls = 0

FmtIdle == topic_counter = 1 /\ topics = <<>> /\ fcalls = 0

\* what a run printed last: its kind and the number of posts it names
Report(kind, n) == [kind |-> kind, n |-> n]

MainIdle ==
    /\ mpc = "idle" /\ bad_at = 0 /\ heap = <<>> /\ post_refs = <<>>
    /\ output_file = "absent" /\ rows_out = <<>> /\ report = Report("none", 0)

----------------------------------------------------------------------------
\* SpecYear: the two year extractors applied to one date string.

InitYear ==
    /\ date_string \in StringsUpTo(DateAlphabet, MaxDateLen)
    /\ year1 = None /\ year2 = None
    /\ FilterIdle /\ RunIdle /\ FmtIdle /\ MainIdle

CallExtractYear ==
    /\ year1 = None
    /\ year1' = Some(extract_year_from_date(date_string))
    /\ UNCHANGED <<date_string, year2, filterVars, runVars, fmtVars, mainVars>>

CallFilterExtractYear ==
    /\ year2 = None
    /\ year2' = Some(PostFilter_extract_year_from_date(date_string))
    /\ UNCHANGED <<date_string, year1, filterVars, runVars, fmtVars, mainVars>>

NextYear == CallExtractYear \/ CallFilterExtractYear

SpecYear == InitYear /\ [][NextYear]_vars

----------------------------------------------------------------------------
\* SpecFilter: one command line, the filter built from it, and its decision
\* on one row.

InitFilter ==
    /\ args \in ArgsPool
    /\ rec \in RowPool
    /\ flt = None /\ verdict = None /\ verdict1 = None /\ fpc = "start"
    /\ YearIdle /\ RunIdle /\ FmtIdle /\ MainIdle

\* main of parser2.py: validate_arguments(args)
Validate ==
    /\ fpc = "start"
    /\ fpc' = IF validate_arguments(args) = "ok" THEN "validated" ELSE "exit"
    /\ UNCHANGED <<args, flt, rec, verdict, verdict1, yearVars, runVars, fmtVars, mainVars>>

\* main of parser2.py: post_filter = create_post_filter(args)
CreateFilter ==
    /\ fpc = "validated"
    /\ IF create_post_filter(args).ok
       THEN fpc' = "ready" /\ flt' = create_post_filter(args).filter
       ELSE fpc' = "exit" /\ flt' = flt
    /\ UNCHANGED <<args, rec, verdict, verdict1, yearVars, runVars, fmtVars, mainVars>>

\* post_filter.should_include_post(elem.attrib)
Evaluate ==
    /\ fpc = "ready"
    /\ verdict = None
    /\ verdict' = Some(should_include_post(flt[1], rec))
    /\ UNCHANGED <<args, flt, rec, verdict1, fpc, yearVars, runVars, fmtVars, mainVars>>

\* parser.py: main validates, parses --years, and the scan applies
\* should_include_post_by_year to the row
EvaluateByYear ==
    /\ verdict1 = None
    /\ OnlyYearOptions(args)
    /\ parser_validate_arguments(args) = "ok"
    /\ parser_specific_years(args).ok
    /\ verdict1' = Some(should_include_post_by_year(
                          rec, args.min_year, args.max_year,
                          parser_specific_years(args).val))
    /\ UNCHANGED <<args, flt, rec, verdict, fpc, yearVars, runVars, fmtVars, mainVars>>

NextFilter == Validate \/ CreateFilter \/ Evaluate \/ EvaluateByYear

SpecFilter == InitFilter /\ [][NextFilter]_vars

----------------------------------------------------------------------------
\* Properties of the year extractors (SpecYear).

\* The integer the four characters of s spell when they are ASCII digits
AsciiYear(s) ==
    1000 * DigitValue(s[1]) + 100 * DigitValue(s[2])
        + 10 * DigitValue(s[3]) + DigitValue(s[4])

BeginsWithFourAsciiDigits(s) ==
    Len(s) >= 4 /\ \A i \in 1..4 : s[i] \in ASCIIDigits

\* C7: for every date string the two extractors return the same value, which
\* is the integer spelled by the first four characters when the string begins
\* with four ASCII digits, and 0 for every other string.
C7_YearOfLeadingAsciiDigits ==
    (year1 # None /\ year2 # None) =>
        /\ year1 = year2
        /\ year1[1] = IF BeginsWithFourAsciiDigits(date_string)
                      THEN AsciiYear(date_string) ELSE 0

\* What does hold of the code: the two agree, the value is the integer of four
\* leading decimal digits of any script, and 0 without them.
YearOfLeadingDecimalDigits ==
    (year1 # None /\ year2 # None) =>
        /\ year1 = year2
        /\ year1[1] = IF Len(date_string) >= 4
                         /\ \A i \in 1..4 : date_string[i] \in DecimalDigits
                      THEN AsciiYear(date_string) ELSE 0

----------------------------------------------------------------------------
\* Properties of the filter decision (SpecFilter).

NumericAttrs == {"Score", "ViewCount", "AnswerCount"}

\* The row with every numeric attribute that int() rejects replaced by "0"
Lenient(r) ==
    [k \in DOMAIN r |-> IF k \in NumericAttrs /\ ~PyInt(r[k]).ok THEN S0 ELSE r[k]]

\* C4: should_include_post never fails: it returns a boolean, the one it
\* returns for the row with its unparsable Score, ViewCount and AnswerCount
\* read as 0.
C4_FilterNeverFails ==
    verdict # None =>
        /\ verdict[1] \in {"True", "False"}
        /\ verdict[1] = should_include_post(flt[1], Lenient(rec))

\* C5: with no filter option on the command line the filter accepts a row
\* whatever its PostTypeId (rows whose Score raises are left aside).
C5_NoOptionAcceptsAnyType ==
    (verdict # None /\ args = NoOptions /\ verdict[1] # "ValueError") =>
        verdict[1] = "True"

EffectiveType(r) == Get(r, "PostTypeId", S1)

RowYear(r) == extract_year_from_date(Get(r, "CreationDate", EmptyStr))

InBounds(lo, hi, y) == (lo = None \/ lo[1] <= y) /\ (hi = None \/ y <= hi[1])

\* The year stage as C6 states it: the bounds count only without a year set
ClaimedYearPass(lo, hi, years, r) ==
    \/ Get(r, "CreationDate", EmptyStr) = EmptyStr
    \/ IF years # {} THEN RowYear(r) \in years ELSE InBounds(lo, hi, RowYear(r))

\* The year stage as amended: the year set and the bounds both count
AmendedYearPass(lo, hi, years, r) ==
    \/ Get(r, "CreationDate", EmptyStr) = EmptyStr
    \/ (years = {} \/ RowYear(r) \in years) /\ InBounds(lo, hi, RowYear(r))

WithoutYear(f) ==
    [f EXCEPT !.min_year = None, !.max_year = None, !.specific_years = {}]

ParserYears == IF parser_specific_years(args).val = None THEN {}
               ELSE parser_specific_years(args).val[1]

WithoutTags(f) == [f EXCEPT !.tags_include = {}, !.tags_exclude = {}]

RowTags(r) == extract_tags(Get(r, "Tags", EmptyStr))

\* C8: a row of post type "1" passes the tag stage only if its tags meet the
\* include-set when one is configured, and only if they miss the exclude-set
\* when one is configured; "<a><b><c>" has the tags a, b, c and an empty or
\* absent Tags has none; "<algebra><geometry>" passes include-tags
\* {calculus, algebra} and fails exclude-tags {algebra}.
C8_TagStage ==
    (verdict # None /\ EffectiveType(rec) = S1) =>
        /\ verdict[1] = "True" <=>
              /\ should_include_post(WithoutTags(flt[1]), rec) = "True"
              /\ flt[1].tags_include # {} => flt[1].tags_include \cap RowTags(rec) # {}
              /\ flt[1].tags_exclude # {} => flt[1].tags_exclude \cap RowTags(rec) = {}
        /\ Get(rec, "Tags", EmptyStr) = EmptyStr => RowTags(rec) = {}
        /\ Get(rec, "Tags", EmptyStr) = Tag(Str_a) \o Tag(Str_b) \o Tag(Str_c)
              => RowTags(rec) = {Str_a, Str_b, Str_c}
        /\ (/\ Get(rec, "Tags", EmptyStr) = Tag(Str_algebra) \o Tag(Str_geometry)
            /\ should_include_post(WithoutTags(flt[1]), rec) = "True") =>
              /\ (flt[1].tags_include = {Str_calculus, Str_algebra}
                    /\ flt[1].tags_exclude = {}) => verdict[1] = "True"
              /\ flt[1].tags_exclude = {Str_algebra} => verdict[1] = "False"

\* A question tagged <algebra><geometry> was accepted under include-tags
\* {calculus, algebra}
C8_Witness ==
    /\ verdict # None /\ EffectiveType(rec) = S1
    /\ Get(rec, "Tags", EmptyStr) = Tag(Str_algebra) \o Tag(Str_geometry)
    /\ flt[1].tags_include = {Str_calculus, Str_algebra}
    /\ verdict[1] = "True"

WithoutQuestionStages(f) ==
    [f EXCEPT !.min_views = None, !.min_answers = None,
              !.has_accepted_answer = None,
              !.tags_include = {}, !.tags_exclude = {}]

WithoutAccepted(f) == [f EXCEPT !.has_accepted_answer = None]

\* C9: for a row whose post type is not "1" the decision is the one of the
\* filter without its view, answer, accepted-answer and tag constraints; for
\* a row of type "1" the accepted-answer stage passes iff the constraint is
\* unset, or required with the AcceptedAnswerId key present, or forbidden with
\* the key absent.
C9_QuestionOnlyStages ==
    verdict # None =>
        /\ EffectiveType(rec) # S1 =>
              verdict[1] = should_include_post(WithoutQuestionStages(flt[1]), rec)
        /\ EffectiveType(rec) = S1 =>
              (verdict[1] = "True" <=>
                  /\ should_include_post(WithoutAccepted(flt[1]), rec) = "True"
                  /\ \/ flt[1].has_accepted_answer = None
                     \/ /\ flt[1].has_accepted_answer = Some(TRUE)
                        /\ "AcceptedAnswerId" \in DOMAIN rec
                     \/ /\ flt[1].has_accepted_answer = Some(FALSE)
                        /\ "AcceptedAnswerId" \notin DOMAIN rec)

\* An answer row without views, answers, accepted answer or tags was accepted
\* by a filter that constrains all four
C9_Witness ==
    /\ verdict # None /\ EffectiveType(rec) = S2
    /\ flt[1].min_views # None /\ flt[1].min_answers # None
    /\ flt[1].has_accepted_answer = Some(TRUE) /\ flt[1].tags_include # {}
    /\ DOMAIN rec = {"PostTypeId"}
    /\ verdict[1] = "True"

\* the command line names a year list and a year-range option
YearsWithRange(a) == a.years # None /\ (a.min_year # None \/ a.max_year # None)

\* C14: a command line with --years and --min-year or --max-year (any
\* integer) is rejected by validate_arguments before a record is read, so a
\* filter that reaches the extractor has no specific-year set or no bound.
C14_YearsWithRangeRejected ==
    /\ YearsWithRange(args) =>
          /\ fpc \in {"start", "exit"}
          /\ verdict = None /\ verdict1 = None
    /\ fpc = "ready" =>
          \/ flt[1].specific_years = {}
          \/ flt[1].min_year = None /\ flt[1].max_year = None

\* What does hold: the rejection is of a year list given with a non-zero bound.
YearsWithNonZeroRangeRejected ==
    /\ (TruthyStr(args.years) /\ (TruthyInt(args.min_year) \/ TruthyInt(args.max_year))) =>
          /\ fpc \in {"start", "exit"}
          /\ verdict = None /\ verdict1 = None
    /\ fpc = "ready" =>
          \/ flt[1].specific_years = {}
          \/ ~TruthyInt(flt[1].min_year) /\ ~TruthyInt(flt[1].max_year)

----------------------------------------------------------------------------
\* Spec: one extractor over a stream of rows, and the topics formatter.

Str_2016 == <<"2", "0", "1", "6">>
Str_2020 == <<"2", "0", "2", "0">>

RowQ10 == [PostTypeId |-> S1, Score |-> <<"1", "0">>, CreationDate |-> Str_2016]
RowA1 == [PostTypeId |-> S2, Score |-> <<"1">>, CreationDate |-> Str_2020]
RowQNeg3 == [PostTypeId |-> S1, Score |-> <<"-", "3">>]
RowQ7 == [PostTypeId |-> S1, Score |-> <<"7">>, CreationDate |-> Str_2016]
RowA2 == [PostTypeId |-> S2, Score |-> <<"2">>, CreationDate |-> Str_2020]
RowBadScore == [PostTypeId |-> S1, Score |-> <<"a", "b", "c">>, CreationDate |-> Str_2016]

\* PostTypeId [1,2,1,1,2] with Score [10,1,-3,7,2]
ScenarioStream == <<RowQ10, RowA1, RowQNeg3, RowQ7, RowA2>>

ScenarioArgs == [NoOptions EXCEPT !.questions_only = TRUE, !.min_score = Some(0)]

YearRangeArgs == [NoOptions EXCEPT !.min_year = Some(2015), !.max_year = Some(2018)]

RunRows == {RowQ10, RowA1, RowQNeg3, RowQ7, RowBadScore}

RECURSIVE SeqsUpTo(_, _)
SeqsUpTo(S, n) ==
    IF n = 0 THEN {<<>>}
    ELSE LET shorter == SeqsUpTo(S, n - 1)
         IN  shorter \cup {Append(q, x) : q \in shorter, x \in S}

Streams == SeqsUpTo(RunRows, MaxStream) \cup {ScenarioStream}

\* the command lines each program is run with
RunArgs(prog) ==
    IF prog = "parser2" THEN {NoOptions, ScenarioArgs, YearRangeArgs}
    ELSE {NoOptions, YearRangeArgs}

\* StreamingPostExtractor.__init__ / the locals of extract_posts_streaming
Init ==
    /\ program \in {"parser2", "parser"}
    /\ stream \in Streams
    /\ post_filter \in {create_post_filter(a).filter : a \in RunArgs(program)}
    /\ target_count \in 1..MaxTarget
    /\ posts = <<>> /\ extracted_count = 0 /\ total_processed = 0
    /\ pos = 0 /\ pc = "idle" /\ calls = 0
    /\ YearIdle /\ FilterIdle /\ FmtIdle /\ MainIdle

\* extract_from_file, up to the loop: the row iterator is opened
ExtractBegin ==
    /\ program = "parser2"
    /\ pc \in {"idle", "returned", "raised"}
    /\ calls < MaxCalls
    /\ pc' = "scanning" /\ pos' = 0 /\ calls' = calls + 1
    /\ UNCHANGED <<program, stream, post_filter, target_count, posts,
                   extracted_count, total_processed, yearVars, filterVars, fmtVars, mainVars>>

\* one iteration of the loop of extract_from_file on the next row
ScanRow ==
    /\ program = "parser2"
    /\ pc = "scanning"
    /\ pos < Len(stream)
    /\ pos' = pos + 1
    /\ total_processed' = total_processed + 1
    /\ LET elem == stream[pos + 1]
           include == should_include_post(post_filter[1], elem)
       IN  IF include = "ValueError"
           THEN pc' = "raised" /\ UNCHANGED <<posts, extracted_count>>
           ELSE IF include = "True"
           THEN /\ posts' = Append(posts, elem)
                /\ extracted_count' = extracted_count + 1
                /\ pc' = IF extracted_count + 1 >= target_count
                         THEN "returned" ELSE "scanning"
           ELSE UNCHANGED <<posts, extracted_count, pc>>
    /\ UNCHANGED <<program, stream, post_filter, target_count, calls,
                   yearVars, filterVars, fmtVars, mainVars>>

\* the iterator is exhausted: return self.posts
ScanEnd ==
    /\ program = "parser2"
    /\ pc = "scanning"
    /\ pos = Len(stream)
    /\ pc' = "returned"
    /\ UNCHANGED <<program, stream, post_filter, target_count, posts,
                   extracted_count, total_processed, pos, calls,
                   yearVars, filterVars, fmtVars, mainVars>>

\* extract_posts_streaming, up to the loop: fresh posts and extracted_count
ParserExtractBegin ==
    /\ program = "parser"
    /\ pc \in {"idle", "returned"}
    /\ calls < MaxCalls
    /\ posts' = <<>> /\ extracted_count' = 0
    /\ pc' = "scanning" /\ pos' = 0 /\ calls' = calls + 1
    /\ UNCHANGED <<program, stream, post_filter, target_count, total_processed,
                   yearVars, filterVars, fmtVars, mainVars>>

\* one iteration of the loop of extract_posts_streaming on the next row
ParserScanRow ==
    /\ program = "parser"
    /\ pc = "scanning"
    /\ pos < Len(stream)
    /\ pos' = pos + 1
    /\ LET post_data == stream[pos + 1]
           f == post_filter[1]
           include == should_include_post_by_year(
                          post_data, f.min_year, f.max_year,
                          IF f.specific_years = {} THEN None
                          ELSE Some(f.specific_years))
       IN  IF extracted_count < target_count /\ include
           THEN /\ posts' = Append(posts, post_data)
                /\ extracted_count' = extracted_count + 1
                /\ pc' = IF extracted_count + 1 >= target_count
                         THEN "returned" ELSE "scanning"
           ELSE UNCHANGED <<posts, extracted_count, pc>>
    /\ UNCHANGED <<program, stream, post_filter, target_count, total_processed,
                   calls, yearVars, filterVars, fmtVars, mainVars>>

\* the iterator is exhausted: return posts
ParserScanEnd ==
    /\ program = "parser"
    /\ pc = "scanning"
    /\ pos = Len(stream)
    /\ pc' = "returned"
    /\ UNCHANGED <<program, stream, post_filter, target_count, posts,
                   extracted_count, total_processed, pos, calls,
                   yearVars, filterVars, fmtVars, mainVars>>

IsQuestion(p) == Get(p, "PostTypeId", S1) = S1

\* the label f"A.{n}"
Label(n) == <<"A.", n>>

\* TopicsFormatter.format_posts_to_topics_xml(posts, output_file) on the list
\* main got from the extractor: topics is the content of the output file, one
\* entry per Topic element with its number and the post it was made from
FormatTopics ==
    /\ program = "parser2"
    /\ pc = "returned"
    /\ posts # <<>>
    /\ fcalls < MaxFormatCalls
    /\ LET questions == SelectSeq(posts, IsQuestion)
       IN  /\ topics' = [i \in 1..Len(questions) |->
                            [number |-> Label(topic_counter + i - 1),
                             post |-> questions[i]]]
           /\ topic_counter' = topic_counter + Len(questions)
    /\ fcalls' = fcalls + 1
    /\ UNCHANGED <<runVars, yearVars, filterVars, mainVars>>

Next ==
    \/ ExtractBegin \/ ScanRow \/ ScanEnd
    \/ ParserExtractBegin \/ ParserScanRow \/ ParserScanEnd
    \/ FormatTopics

Spec == Init /\ [][Next]_vars

----------------------------------------------------------------------------
\* Properties of an extraction (Spec).

\* the filter of the running program accepts row r
Accepts(r) ==
    IF program = "parser2"
    THEN should_include_post(post_filter[1], r) = "True"
    ELSE should_include_post_by_year(
             r, post_filter[1].min_year, post_filter[1].max_year,
             IF post_filter[1].specific_years = {} THEN None
             ELSE Some(post_filter[1].specific_years))

\* the filter of the running program raises on row r
Raises(r) ==
    program = "parser2" /\ should_include_post(post_filter[1], r) = "ValueError"

Min(a, b) == IF a <= b THEN a ELSE b

AcceptedOfStream == SelectSeq(stream, Accepts)

\* the first min(K, m) accepted rows of the stream, in stream order
FirstAccepted ==
    SubSeq(AcceptedOfStream, 1, Min(target_count, Len(AcceptedOfStream)))

\* the number of accepted rows among the first n of the stream
AcceptedUpTo(n) == Len(SelectSeq(SubSeq(stream, 1, n), Accepts))

\* the position M of the K-th accepted row, or N when fewer than K are accepted
EndPosition ==
    IF Len(AcceptedOfStream) >= target_count
    THEN CHOOSE M \in 1..Len(stream) :
             AcceptedUpTo(M) = target_count /\ AcceptedUpTo(M - 1) < target_count
    ELSE Len(stream)

\* C1: a single extraction ends by returning exactly the first min(K, m)
\* accepted rows of the stream, in stream order.
C1_ReturnsFirstAccepted ==
    calls = 1 =>
        /\ pc # "raised"
        /\ pc = "returned" => posts = FirstAccepted

\* What does hold of the code: a single extraction that returns, returns the
\* first min(K, m) accepted rows; it raises only on a row whose Score,
\* ViewCount or AnswerCount int() rejects.
ReturnsFirstAcceptedUnlessRaised ==
    calls = 1 =>
        /\ pc = "returned" => posts = FirstAccepted
        /\ pc = "raised" => Raises(stream[pos])

\* C2: extracted_count, the number of rows held in posts, is at most
\* target_count in every state of a StreamingPostExtractor.
C2_AcceptedAtMostTarget ==
    program = "parser2" =>
        extracted_count = Len(posts) /\ extracted_count <= target_count

\* What does hold: the bound holds through the first call, and every later
\* call adds at most one row.
AcceptedAtMostTargetPlusCalls ==
    program = "parser2" =>
        /\ extracted_count = Len(posts)
        /\ calls <= 1 => extracted_count <= target_count
        /\ calls >= 1 => extracted_count <= target_count + calls - 1

\* C3: a single extraction scans exactly the rows 1..M, M the position of
\* the K-th accepted row (N when fewer than K are accepted): no row after M
\* is scanned and total_processed ends at M.  On the scenario stream with
\* min_score=0, post_types={"1"}, target 2 the rows 1 and 4 are accepted and
\* total_processed is 4.
C3_EarlyExit ==
    calls = 1 =>
        /\ pos <= EndPosition
        /\ pc \in {"returned", "raised"} =>
              /\ pos = EndPosition
              /\ program = "parser2" => total_processed = EndPosition
        /\ (/\ pc = "returned" /\ program = "parser2" /\ stream = ScenarioStream
            /\ post_filter = create_post_filter(ScenarioArgs).filter
            /\ target_count = 2) =>
              posts = <<RowQ10, RowQ7>> /\ total_processed = 4

\* What does hold: no row after M is scanned, and an extraction that returns
\* has scanned exactly M rows.
EarlyExitUnlessRaised ==
    calls = 1 =>
        /\ pos <= EndPosition
        /\ pc = "returned" =>
              /\ pos = EndPosition
              /\ program = "parser2" => total_processed = EndPosition
        /\ (/\ pc = "returned" /\ program = "parser2" /\ stream = ScenarioStream
            /\ post_filter = create_post_filter(ScenarioArgs).filter
            /\ target_count = 2) =>
              posts = <<RowQ10, RowQ7>> /\ total_processed = 4

ScenarioReached ==
    /\ pc = "returned" /\ program = "parser2" /\ stream = ScenarioStream
    /\ post_filter = create_post_filter(ScenarioArgs).filter
    /\ target_count = 2 /\ calls = 1

QuestionsOfPosts == SelectSeq(posts, IsQuestion)

\* C10: every call of format_posts_to_topics_xml writes, in order, one Topic
\* element per post of the list of post type "1", and the n-th carries the
\* label "A.n".
C10_TopicsNumbering ==
    [][fcalls' # fcalls =>
          /\ Len(topics') = Len(QuestionsOfPosts)
          /\ \A n \in 1..Len(topics') :
                /\ topics'[n].post = QuestionsOfPosts[n]
                /\ topics'[n].number = Label(n)]_vars

\* What does hold: the topics are the questions in order; the n-th is
\* numbered A.n by the first call on a formatter and A.(c+n-1) by a later
\* one, c being the formatter's running topic_counter.
TopicsNumberingFromCounter ==
    [][fcalls' # fcalls =>
          /\ Len(topics') = Len(QuestionsOfPosts)
          /\ \A n \in 1..Len(topics') :
                /\ topics'[n].post = QuestionsOfPosts[n]
                /\ topics'[n].number = Label(topic_counter + n - 1)
          /\ fcalls = 0 => topic_counter = 1]_vars

----------------------------------------------------------------------------
\* SpecMain: one run of main of either program, from the command line to the
\* output file.  The attribute dicts live in a heap so that a dict and its
\* copy are two objects: object i is elem.attrib of the i-th row, object
\* Len(stream) + i is the copy dict(elem.attrib) made of it.

\* EscapeChar writing a line feed as it is
EscapeChar_NoNewline(c) ==
    CASE c = "&" -> <<"&", "a", "m", "p", ";">>
      [] c = "<" -> <<"&", "l", "t", ";">>
      [] c = ">" -> <<"&", "g", "t", ";">>
      [] c = "\"" -> <<"&", "q", "u", "o", "t", ";">>
      [] c = "\r" -> <<"&", "#", "1", "3", ";">>
      [] c = "\t" -> <<"&", "#", "0", "9", ";">>
      [] OTHER -> <<c>>

\* tree.write: the text written for one character of an attribute value
\* (xml.etree.ElementTree._escape_attrib)
EscapeChar(c) ==
    CASE c = "&" -> <<"&", "a", "m", "p", ";">>
      [] c = "<" -> <<"&", "l", "t", ";">>
      [] c = ">" -> <<"&", "g", "t", ";">>
      [] c = "\"" -> <<"&", "q", "u", "o", "t", ";">>
      [] c = "\r" -> <<"&", "#", "1", "3", ";">>
      [] c = "\n" -> <<"&", "#", "1", "0", ";">>
      [] c = "\t" -> <<"&", "#", "0", "9", ";">>
      [] OTHER -> <<c>>

RECURSIVE EscapeAttrib(_)
EscapeAttrib(text) ==
    IF text = <<>> THEN <<>>
    ELSE EscapeChar(Head(text)) \o EscapeAttrib(Tail(text))

\* the character an entity or character reference of the output stands for
EntityChar(name) ==
    CASE name = <<"a", "m", "p">> -> "&"
      [] name = <<"l", "t">> -> "<"
      [] name = <<"g", "t">> -> ">"
      [] name = <<"q", "u", "o", "t">> -> "\""
      [] name = <<"a", "p", "o", "s">> -> "'"
      [] name = <<"#", "1", "3">> -> "\r"
      [] name = <<"#", "1", "0">> -> "\n"
      [] name = <<"#", "0", "9">> -> "\t"
      [] OTHER -> "?"

\* the XML parser reading an attribute value of a well-formed file: references
\* are replaced, a literal line break or tab becomes one space
RECURSIVE ReadAttrib(_)
ReadAttrib(text) ==
    IF text = <<>> THEN <<>>
    ELSE IF Head(text) = "&"
    THEN LET k == CHOOSE i \in 1..Len(text) :
                      text[i] = ";" /\ \A j \in 1..(i - 1) : text[j] # ";"
         IN  <<EntityChar(SubSeq(text, 2, k - 1))>>
                 \o ReadAttrib(SubSeq(text, k + 1, Len(text)))
    ELSE IF Head(text) = "\r" /\ Len(text) > 1 /\ text[2] = "\n"
    THEN ReadAttrib(Tail(text))
    ELSE IF Head(text) \in {"\n", "\t", "\r"}
    THEN <<" ">> \o ReadAttrib(Tail(text))
    ELSE <<Head(text)>> \o ReadAttrib(Tail(text))

\* the rows of an echo output file as the parser reads them back
ReadRows(rows) ==
    [i \in 1..Len(rows) |-> [k \in DOMAIN rows[i] |-> ReadAttrib(rows[i][k])]]

\* attribute values with every character the writer escapes
TitleSpecial == <<"a", "&", "<", ">", "\"", "\n", "\t", "\r", " ", "'">>
BodyAmp == <<"&", "a", "m", "p", ";", "\r", "\n">>

MainRowQ ==
    [PostTypeId |-> S1, Score |-> <<"1", "0">>, CreationDate |-> Str_2016,
     Title |-> TitleSpecial]
MainRowA ==
    [PostTypeId |-> S2, Score |-> <<"1">>, CreationDate |-> Str_2020,
     Body |-> BodyAmp]

MainRows == {MainRowQ, MainRowA, RowBadScore}

AnswersOnlyArgs == [NoOptions EXCEPT !.answers_only = TRUE]

\* the command lines of a run: the options, the number of posts asked for,
\* and an input path that exists or not
MainArgs(prog) ==
    LET options == IF prog = "parser2"
                   THEN {NoOptions, ScenarioArgs, AnswersOnlyArgs, YearRangeArgs}
                   ELSE {NoOptions, YearRangeArgs}
    IN  {[a EXCEPT !.num_posts = n] : a \in options, n \in 0..MaxTarget}
        \cup {[a EXCEPT !.input_exists = FALSE] : a \in options}

\* StoredRef storing elem.attrib itself
StoredRef_Alias(n, i) == i

\* the dict object made by dict(elem.attrib) for the i-th of n rows
StoredRef(n, i) == n + i

\* the list a sequence of references stands for
Deref(h, refs) == [k \in 1..Len(refs) |-> h[refs[k]]]

\* Element.clear() leaves the element's attrib dict empty
Cleared(h, i) == [h EXCEPT ![i] = <<>>]

\* the input holds the rows of stream; bad_at, when not 0, is the position at
\* which the parser finds the markup unparsable (the rows before it are
\* delivered, bad_at = Len(stream) + 1 is an error after the last row)
InitMain ==
    /\ program \in {"parser2", "parser"}
    /\ args \in MainArgs(program)
    /\ stream \in SeqsUpTo(MainRows, MaxStream)
    /\ bad_at \in 0..(Len(stream) + 1)
    /\ heap = [i \in 1..(2 * Len(stream)) |->
                  IF i <= Len(stream) THEN stream[i] ELSE <<>>]
    /\ post_refs = <<>>
    /\ output_file \in {"absent", "old"}
    /\ rows_out = <<>> /\ report = Report("none", 0)
    /\ mpc = "running"
    /\ flt = None /\ rec = Row(NoAttrs) /\ verdict = None /\ verdict1 = None
    /\ fpc = "start"
    /\ post_filter = None /\ target_count = 1
    /\ posts = <<>> /\ extracted_count = 0 /\ total_processed = 0
    /\ pos = 0 /\ pc = "idle" /\ calls = 0
    /\ YearIdle /\ FmtIdle

\* main of parser2.py: validate_arguments(args); an exception ends the run in
\* the handler of line 545
MainValidate ==
    /\ program = "parser2" /\ mpc = "running" /\ fpc = "start"
    /\ IF validate_arguments(args) = "ok"
       THEN fpc' = "validated" /\ UNCHANGED <<mpc, report>>
       ELSE fpc' = "exit" /\ mpc' = "failed" /\ report' = Report("Error", 0)
    /\ UNCHANGED <<args, flt, rec, verdict, verdict1, yearVars, runVars, fmtVars,
                   bad_at, heap, post_refs, output_file, rows_out>>

\* main of parser2.py: post_filter = create_post_filter(args)
MainCreateFilter ==
    /\ program = "parser2" /\ mpc = "running" /\ fpc = "validated"
    /\ IF create_post_filter(args).ok
       THEN /\ fpc' = "ready" /\ flt' = create_post_filter(args).filter
            /\ UNCHANGED <<mpc, report>>
       ELSE /\ fpc' = "exit" /\ flt' = flt
            /\ mpc' = "failed" /\ report' = Report("Error", 0)
    /\ UNCHANGED <<args, rec, verdict, verdict1, yearVars, runVars, fmtVars,
                   bad_at, heap, post_refs, output_file, rows_out>>

\* main of parser.py: validate_arguments(args) and the parsing of --years;
\* parser.py has no filter object, its min_year, max_year and specific_years
\* are carried in a PostFilter record
ParserMainValidate ==
    /\ program = "parser" /\ mpc = "running" /\ fpc = "start"
    /\ IF parser_validate_arguments(args) = "ok" /\ parser_specific_years(args).ok
       THEN /\ fpc' = "ready" /\ flt' = create_post_filter(args).filter
            /\ UNCHANGED <<mpc, report>>
       ELSE /\ fpc' = "exit" /\ flt' = flt
            /\ mpc' = "failed" /\ report' = Report("Error", 0)
    /\ UNCHANGED <<args, rec, verdict, verdict1, yearVars, runVars, fmtVars,
                   bad_at, heap, post_refs, output_file, rows_out>>

\* main of parser2.py: StreamingPostExtractor(args.num_posts, post_filter) and
\* extract_from_file up to the loop
MainExtractBegin ==
    /\ program = "parser2" /\ mpc = "running" /\ fpc = "ready" /\ pc = "idle"
    /\ post_filter' = flt /\ target_count' = args.num_posts
    /\ posts' = <<>> /\ extracted_count' = 0 /\ total_processed' = 0
    /\ pc' = "scanning" /\ pos' = 0 /\ calls' = calls + 1
    /\ UNCHANGED <<program, stream, yearVars, filterVars, fmtVars, mainVars>>

\* MainParseError returning the records accepted so far
MainParseError_ReturnsPartial ==
    /\ program = "parser2" /\ mpc = "running" /\ pc = "scanning"
    /\ bad_at = pos + 1
    /\ pc' = "returned"
    /\ UNCHANGED <<program, stream, post_filter, target_count, posts,
                   extracted_count, total_processed, pos, calls,
                   yearVars, filterVars, fmtVars, mainVars>>

\* the iterator finds the markup unparsable: extract_from_file re-raises
\* ParseError and main's handler of line 545 ends the run
MainParseError ==
    /\ program = "parser2" /\ mpc = "running" /\ pc = "scanning"
    /\ bad_at = pos + 1
    /\ pc' = "raised" /\ mpc' = "failed" /\ report' = Report("Error", 0)
    /\ UNCHANGED <<program, stream, post_filter, target_count, posts,
                   extracted_count, total_processed, pos, calls,
                   yearVars, filterVars, fmtVars,
                   bad_at, heap, post_refs, output_file, rows_out>>

\* one iteration of the loop of extract_from_file: the filter reads
\* elem.attrib, an accepted row is stored as the copy dict(elem.attrib), and
\* unless the loop breaks the element is cleared
MainScanRow ==
    /\ program = "parser2" /\ mpc = "running" /\ pc = "scanning"
    /\ pos < Len(stream) /\ bad_at # pos + 1
    /\ pos' = pos + 1
    /\ total_processed' = total_processed + 1
    /\ LET i == pos + 1
           include == should_include_post(post_filter[1], heap[i])
           ref == StoredRef(Len(stream), i)
           copied == [heap EXCEPT ![ref] = heap[i]]
       IN  IF include = "ValueError"
           THEN /\ pc' = "raised" /\ mpc' = "failed"
                /\ report' = Report("Error", 0)
                /\ UNCHANGED <<posts, extracted_count, heap, post_refs>>
           ELSE IF include = "True"
           THEN /\ post_refs' = Append(post_refs, ref)
                /\ extracted_count' = extracted_count + 1
                /\ heap' = IF extracted_count + 1 >= target_count
                           THEN copied ELSE Cleared(copied, i)
                /\ posts' = Deref(heap', post_refs')
                /\ pc' = IF extracted_count + 1 >= target_count
                         THEN "returned" ELSE "scanning"
                /\ UNCHANGED <<mpc, report>>
           ELSE /\ heap' = Cleared(heap, i)
                /\ posts' = Deref(heap', post_refs)
                /\ UNCHANGED <<extracted_count, post_refs, pc, mpc, report>>
    /\ UNCHANGED <<program, stream, post_filter, target_count, calls,
                   yearVars, filterVars, fmtVars, bad_at, output_file, rows_out>>

\* the iterator is exhausted: return self.posts
MainScanEnd ==
    /\ program = "parser2" /\ mpc = "running" /\ pc = "scanning"
    /\ pos = Len(stream) /\ bad_at # pos + 1
    /\ pc' = "returned"
    /\ UNCHANGED <<program, stream, post_filter, target_count, posts,
                   extracted_count, total_processed, pos, calls,
                   yearVars, filterVars, fmtVars, mainVars>>

\* main of parser.py: extract_posts_streaming up to the loop
ParserMainExtractBegin ==
    /\ program = "parser" /\ mpc = "running" /\ fpc = "ready" /\ pc = "idle"
    /\ post_filter' = flt /\ target_count' = args.num_posts
    /\ posts' = <<>> /\ extracted_count' = 0
    /\ pc' = "scanning" /\ pos' = 0 /\ calls' = calls + 1
    /\ UNCHANGED <<program, stream, total_processed,
                   yearVars, filterVars, fmtVars, mainVars>>

\* the iterator finds the markup unparsable: extract_posts_streaming prints
\* the error and calls sys.exit(1)
ParserMainParseError ==
    /\ program = "parser" /\ mpc = "running" /\ pc = "scanning"
    /\ bad_at = pos + 1
    /\ pc' = "raised" /\ mpc' = "failed" /\ report' = Report("Error", 0)
    /\ UNCHANGED <<program, stream, post_filter, target_count, posts,
                   extracted_count, total_processed, pos, calls,
                   yearVars, filterVars, fmtVars,
                   bad_at, heap, post_refs, output_file, rows_out>>

\* one iteration of the loop of extract_posts_streaming: the copy
\* post_data = dict(elem.attrib) is made first and the year filter reads the
\* copy; a copy that is not appended is dropped
ParserMainScanRow ==
    /\ program = "parser" /\ mpc = "running" /\ pc = "scanning"
    /\ pos < Len(stream) /\ bad_at # pos + 1
    /\ pos' = pos + 1
    /\ LET i == pos + 1
           ref == StoredRef(Len(stream), i)
           copied == [heap EXCEPT ![ref] = heap[i]]
           f == post_filter[1]
           include == should_include_post_by_year(
                          copied[ref], f.min_year, f.max_year,
                          IF f.specific_years = {} THEN None
                          ELSE Some(f.specific_years))
       IN  IF extracted_count < target_count /\ include
           THEN /\ post_refs' = Append(post_refs, ref)
                /\ extracted_count' = extracted_count + 1
                /\ heap' = IF extracted_count + 1 >= target_count
                           THEN copied ELSE Cleared(copied, i)
                /\ posts' = Deref(heap', post_refs')
                /\ pc' = IF extracted_count + 1 >= target_count
                         THEN "returned" ELSE "scanning"
           ELSE /\ heap' = Cleared(heap, i)
                /\ posts' = Deref(heap', post_refs)
                /\ UNCHANGED <<extracted_count, post_refs, pc>>
    /\ UNCHANGED <<program, stream, post_filter, target_count, total_processed,
                   calls, yearVars, filterVars, fmtVars,
                   mpc, bad_at, output_file, rows_out, report>>

\* the iterator is exhausted: return posts
ParserMainScanEnd ==
    /\ program = "parser" /\ mpc = "running" /\ pc = "scanning"
    /\ pos = Len(stream) /\ bad_at # pos + 1
    /\ pc' = "returned"
    /\ UNCHANGED <<program, stream, post_filter, target_count, posts,
                   extracted_count, total_processed, pos, calls,
                   yearVars, filterVars, fmtVars, mainVars>>

\* MainNoMatches going on to the formatter with the empty list
MainNoMatches_WritesAnyway ==
    /\ program = "parser2" /\ mpc = "running" /\ pc = "returned"
    /\ posts = <<>>
    /\ mpc' = "writing" /\ output_file' = "partial"
    /\ UNCHANGED <<runVars, yearVars, filterVars, fmtVars,
                   bad_at, heap, post_refs, rows_out, report>>

\* main of parser2.py: `if not posts:` prints that nothing matched and calls
\* sys.exit(1); SystemExit passes both handlers of main
MainNoMatches ==
    /\ program = "parser2" /\ mpc = "running" /\ pc = "returned"
    /\ posts = <<>>
    /\ mpc' = "failed" /\ report' = Report("NoMatches", 0)
    /\ UNCHANGED <<runVars, yearVars, filterVars, fmtVars,
                   bad_at, heap, post_refs, output_file, rows_out>>

\* main of parser.py: `if not posts:` prints that nothing was extracted and
\* calls sys.exit(1)
ParserMainNoMatches ==
    /\ program = "parser" /\ mpc = "running" /\ pc = "returned"
    /\ posts = <<>>
    /\ mpc' = "failed" /\ report' = Report("NoMatches", 0)
    /\ UNCHANGED <<runVars, yearVars, filterVars, fmtVars,
                   bad_at, heap, post_refs, output_file, rows_out>>

\* TopicsFormatter().format_posts_to_topics_xml(posts, args.output), up to
\* open(output_file, 'w'): the tree is built, one Topic per post of type "1",
\* and the output file is created or truncated
MainFormatOpen ==
    /\ program = "parser2" /\ mpc = "running" /\ pc = "returned"
    /\ posts # <<>>
    /\ topic_counter' = topic_counter + Len(SelectSeq(posts, IsQuestion))
    /\ topics' = <<>>
    /\ fcalls' = fcalls + 1
    /\ output_file' = "partial" /\ mpc' = "writing"
    /\ UNCHANGED <<runVars, yearVars, filterVars,
                   bad_at, heap, post_refs, rows_out, report>>

\* the rest of format_posts_to_topics_xml and the success message of main:
\* the declaration and the tree are written, the file is closed, and main
\* prints the number of posts, len(posts)
MainFormatFinish ==
    /\ program = "parser2" /\ mpc = "writing"
    /\ LET questions == SelectSeq(posts, IsQuestion)
           first == topic_counter - Len(questions)
       IN  topics' = [i \in 1..Len(questions) |->
                         [number |-> Label(first + i - 1),
                          post |-> questions[i]]]
    /\ output_file' = "complete" /\ mpc' = "succeeded"
    /\ report' = Report("Success", Len(posts))
    /\ UNCHANGED <<runVars, yearVars, filterVars, topic_counter, fcalls,
                   bad_at, heap, post_refs, rows_out>>

\* create_output_xml(posts, args.output), up to open(output_file, 'wb'): the
\* output file is created or truncated
ParserWriteOpen ==
    /\ program = "parser" /\ mpc = "running" /\ pc = "returned"
    /\ posts # <<>>
    /\ rows_out' = <<>>
    /\ output_file' = "partial" /\ mpc' = "writing"
    /\ UNCHANGED <<runVars, yearVars, filterVars, fmtVars,
                   bad_at, heap, post_refs, report>>

\* the rest of create_output_xml: tree.write puts out one row element per
\* post with the post's attributes, escaped, and the success message follows
ParserWriteFinish ==
    /\ program = "parser" /\ mpc = "writing"
    /\ rows_out' = [i \in 1..Len(posts) |->
                       [k \in DOMAIN posts[i] |-> EscapeAttrib(posts[i][k])]]
    /\ output_file' = "complete" /\ mpc' = "succeeded"
    /\ report' = Report("Success", Len(posts))
    /\ UNCHANGED <<runVars, yearVars, filterVars, fmtVars,
                   bad_at, heap, post_refs>>

\* KeyboardInterrupt raised at any point of main of parser2.py: the handler of
\* line 542 prints the cancellation and calls sys.exit(1); the output file is
\* left as it is
MainKeyboardInterrupt ==
    /\ program = "parser2" /\ mpc \in {"running", "writing"}
    /\ mpc' = "failed" /\ report' = Report("Cancelled", 0)
    /\ pc' = IF pc = "scanning" THEN "raised" ELSE pc
    /\ UNCHANGED <<program, stream, post_filter, target_count, posts,
                   extracted_count, total_processed, pos, calls,
                   yearVars, filterVars, fmtVars,
                   bad_at, heap, post_refs, output_file, rows_out>>

\* KeyboardInterrupt raised at any point of main of parser.py: no handler
\* catches it (create_output_xml catches Exception only), the interpreter
\* ends the process with a traceback; the output file is left as it is
ParserKeyboardInterrupt ==
    /\ program = "parser" /\ mpc \in {"running", "writing"}
    /\ mpc' = "failed" /\ report' = Report("Cancelled", 0)
    /\ pc' = IF pc = "scanning" THEN "raised" ELSE pc
    /\ UNCHANGED <<program, stream, post_filter, target_count, posts,
                   extracted_count, total_processed, pos, calls,
                   yearVars, filterVars, fmtVars,
                   bad_at, heap, post_refs, output_file, rows_out>>

NextMain ==
    \/ MainValidate \/ MainCreateFilter \/ MainExtractBegin
    \/ MainParseError \/ MainScanRow \/ MainScanEnd
    \/ MainNoMatches \/ MainFormatOpen \/ MainFormatFinish
    \/ MainKeyboardInterrupt
    \/ ParserMainValidate \/ ParserMainExtractBegin
    \/ ParserMainParseError \/ ParserMainScanRow \/ ParserMainScanEnd
    \/ ParserMainNoMatches \/ ParserWriteOpen \/ ParserWriteFinish
    \/ ParserKeyboardInterrupt

SpecMain == InitMain /\ [][NextMain]_vars

----------------------------------------------------------------------------
\* Properties of SpecMain.

\* C11: the echo output written by create_output_xml holds one row element per
\* record of the accepted list, in list order, with the record's keys and
\* string values, so reading the rows back yields the accepted list.
C11_EchoRoundTrip ==
    (program = "parser" /\ output_file = "complete") =>
        /\ Len(rows_out) = Len(posts)
        /\ \A i \in 1..Len(rows_out) :
              /\ DOMAIN rows_out[i] = DOMAIN posts[i]
              /\ \A k \in DOMAIN posts[i] : ReadAttrib(rows_out[i][k]) = posts[i][k]
        /\ ReadRows(rows_out) = posts

\* an echo file of two records whose values hold every escaped character
C11_Witness ==
    /\ program = "parser" /\ output_file = "complete"
    /\ posts = <<MainRowQ, MainRowA>>
    /\ rows_out[1].Title # TitleSpecial

\* the output path is as the run found it
OutputUntouched ==
    /\ output_file \in {"absent", "old"}
    /\ rows_out = <<>> /\ topics = <<>>

\* the scan has returned and no row of the stream satisfied the filter
ScanFoundNothing ==
    /\ pc = "returned"
    /\ \A i \in 1..Len(stream) : ~Accepts(stream[i])

\* C12: when the scan completes and no record of the stream satisfied the
\* filter, the run of either program ends in failure having reported that
\* nothing matched, the formatter is never invoked and the output file is
\* neither created nor overwritten.
C12_NoMatchesFails ==
    ScanFoundNothing =>
        /\ mpc \in {"running", "failed"}
        /\ (mpc = "failed" /\ report.kind # "Cancelled") =>
              report = Report("NoMatches", 0)
        /\ fcalls = 0
        /\ OutputUntouched

\* a run over two rows, none accepted, that failed reporting no matches and
\* left an existing output file alone
C12_Witness ==
    /\ ScanFoundNothing /\ Len(stream) = 2
    /\ mpc = "failed" /\ report = Report("NoMatches", 0)
    /\ output_file = "old"

\* the extraction was aborted: nothing returned, the run not past the
\* extraction, no output, and no row read beyond the unparsable position
ExtractionAborted ==
    /\ pc # "returned"
    /\ mpc \in {"running", "failed"}
    /\ fcalls = 0
    /\ OutputUntouched
    /\ bad_at # 0 => pos < bad_at

\* C13: if the input file is missing or the markup is unparsable at any
\* position of the stream, also after accepted records, the extraction
\* aborts there, no list is returned, the run fails and no output is written.
C13_AbortsOnAnyBadInput ==
    (~args.input_exists \/ bad_at # 0) => ExtractionAborted

\* the unparsable position comes before the scan has met target_count rows
\* that satisfy the filter
ReachesBadMarkup ==
    /\ bad_at # 0
    /\ post_filter # None => AcceptedUpTo(bad_at - 1) < target_count

\* C13 as it holds: the same for a missing input file and for markup that is
\* unparsable at a position the scan reaches, that is before target_count
\* rows satisfying the filter have been read.
C13_AbortsOnBadInputReached ==
    (~args.input_exists \/ ReachesBadMarkup) => ExtractionAborted

\* a scan that had accepted a record when it met the unparsable markup
C13_Witness ==
    /\ ReachesBadMarkup /\ post_filter # None
    /\ \A i \in 1..Len(stream) : ~Raises(stream[i])
    /\ post_refs # <<>> /\ pos = bad_at - 1
    /\ pc = "raised" /\ mpc = "failed" /\ report = Report("Error", 0)

\* C15: a user interrupt at any step of a run, during the scan or during the
\* writing of the output, stops the run in a failure state and never leaves
\* the output file partially written: the file is absent or untouched, or it
\* holds the complete output.
C15_CancelLeavesNoPartialOutput ==
    report.kind = "Cancelled" =>
        /\ mpc = "failed"
        /\ output_file \in {"absent", "old", "complete"}

\* What does hold: an interrupt stops the run in a failure state, and one that
\* arrives before the output file is opened leaves the output path untouched.
CancelBeforeWritingLeavesOutput ==
    [][report'.kind = "Cancelled" /\ report.kind # "Cancelled" =>
          /\ mpc' = "failed"
          /\ output_file' = output_file
          /\ mpc = "running" => OutputUntouched']_vars

\* the position in the stream of the row a stored dict object was taken from
SourceOf(ref) == IF ref > Len(stream) THEN ref - Len(stream) ELSE ref

\* C16: clearing the element and the root after each row never changes a
\* stored record: at every step of the scan and at its end each record of the
\* accepted list equals, key for key and value for value, the attribute
\* mapping of its source row, and evaluating the filter changes neither the
\* row it read nor the filter configuration.
C16_StoredRecordsUnchanged ==
    /\ Len(posts) = Len(post_refs)
    /\ \A k \in 1..Len(post_refs) :
          /\ SourceOf(post_refs[k]) \in 1..pos
          /\ posts[k] = stream[SourceOf(post_refs[k])]
          /\ k > 1 => SourceOf(post_refs[k - 1]) < SourceOf(post_refs[k])
    /\ (pc = "returned" /\ posts # <<>> /\ extracted_count >= target_count) =>
          heap[pos] = stream[pos]
    /\ pc # "idle" => post_filter = flt
    /\ (flt # None /\ program = "parser2") => flt = create_post_filter(args).filter

\* two records are stored and the element the first was copied from has been
\* cleared
C16_Witness ==
    /\ pc = "returned" /\ Len(posts) = 2
    /\ heap[SourceOf(post_refs[1])] = <<>>
    /\ posts[1] = MainRowQ

\* C17: whenever a run of main of parser2.py ends successfully, the number of
\* Topic elements in the output file equals the number of posts named in the
\* success message, len(posts), and is at least 1.
C17_TopicsCountIsReported ==
    (program = "parser2" /\ mpc = "succeeded") =>
        /\ Len(topics) = report.n
        /\ Len(topics) >= 1

\* What does hold: the message names the length of the accepted list, which is
\* at least 1, and the file holds one Topic per post of type "1" of the list.
TopicsCountIsQuestionsOfReported ==
    (program = "parser2" /\ mpc = "succeeded") =>
        /\ report = Report("Success", Len(posts))
        /\ report.n >= 1
        /\ Len(topics) = Len(QuestionsOfPosts)
        /\ Len(topics) <= report.n

====
